---- MODULE Spec2Model ----
(***************************************************************************)
(* Model of the local-finance wealth engine (src/src/engine.py) together   *)
(* with the handlers that write the ledger it replays (src/app.py,         *)
(* src/src/importer.py, src/src/database.py, src/src/queries.py).          *)
(*                                                                         *)
(* Dates are day numbers 1..MaxDay; Today is the day date.today() returns. *)
(* Money and quantities are integers counting units of 0.005 (the code     *)
(* uses floats); a unit price is an integer.  The test `> 0.000001` on a   *)
(* quantity is `> 0` on these integers, the test `abs(bal) > 0.01` on a    *)
(* balance is `> CashEps`.                                                 *)
(* A Python dict is a function whose DOMAIN is the set of its keys.        *)
(* A pandas NaN cell of the output table is a column name missing from the *)
(* row's DOMAIN.                                                           *)
(***************************************************************************)
EXTENDS Integers, Sequences, FiniteSets, TLC

\* ---------------------------------------------------------------- bounds
Today == 2
MaxDay == Today + 1
MaxEvents == 2

Dates == 1..MaxDay
Names == {"A", "B"}
Tickers == {"X", "Y"}
InitBalances == {5}
TxAmounts == {3}
TransferAmounts == {2}
Quantities == {2}
UnitPrices == {3}
FeeValues == {1}

\* date(2020, 1, 1), the first day asked from the price source
DefaultStart == 1

\* columns of the accounts table as created by init_db
AccountsColumns == {"name", "initial_balance"}

\* the threshold 0.01 of a cash line, in units of 0.005
CashEps == 2

\* a Close that is missing in the frame yf.download returns
NaN == 0 - 1
Sessions == {1, 2}

\* what yf.download has for each ticker: rows <<date, close>>; X traded on
\* day 1 and has a row without a close on day 2, Y traded on day 2 only
YfSeries ==
    [t \in Tickers |-> IF t = "X" THEN {<<1, 4>>, <<2, NaN>>} ELSE {<<2, 5>>}]

VARIABLES
    accounts,        \* table accounts: name -> initial_balance
    transactions,    \* table transactions, in rowid order
    transfers,       \* table transfers, in rowid order
    investments,     \* table investments, in rowid order
    market_prices,   \* table market_prices: rows [date, ticker, price]
    pc,              \* position of calculate_wealth_evolution
    start_date,      \* first day of timeline (timeline = start_date..Today)
    day,             \* loop variable of the event loop
    k,               \* index of the next row in the day's group
    prices,          \* the frame read from market_prices after the sync
    current_cash,    \* dict account -> cash
    portfolio,       \* dict account -> dict ticker -> quantity
    last_tx_prices,  \* dict ticker -> last unit price seen
    history,         \* list of the day records
    trace,           \* the dicts as they were when each record was made
    result,          \* the table returned
    raised,          \* TRUE when the run ended in an exception
    requested,       \* the ranges the run asked yf.download for
    fetch_failed,    \* the tickers whose yf.download raised in the run
    spc,             \* position of get_detailed_snapshot
    target_date,     \* its argument
    sk,              \* index of the next row of invs
    cash_balances,   \* dict account -> cash
    portfolio_qty,   \* dict <<account, ticker>> -> quantity
    rows,            \* the lines returned
    stats,           \* the counts the last import_excel_file returned
    import_raised,   \* TRUE when the last import_excel_file raised
    upc,             \* per session: position in update_market_data
    existing_data,   \* per session: the cache rows its first SELECT saw
    remaining,       \* per session: the tickers its loop has still to visit
    uncommitted,     \* per session: the rows written and not yet committed
    prices_read,     \* per session: the rows its SELECT of line 107 returned
    write_lock       \* the session that holds the database's write lock, or 0

ledger == <<accounts, transactions, transfers, investments>>
run == <<pc, start_date, day, k, prices, current_cash, portfolio,
         last_tx_prices, history, trace, result, raised, requested,
         fetch_failed>>
snap == <<spc, target_date, sk, cash_balances, portfolio_qty, rows>>
imp == <<stats, import_raised>>
sessions == <<upc, existing_data, remaining, uncommitted, prices_read,
              write_lock>>
vars == <<accounts, transactions, transfers, investments, market_prices,
          pc, start_date, day, k, prices, current_cash, portfolio,
          last_tx_prices, history, trace, result, raised, requested,
          fetch_failed, spc, target_date, sk, cash_balances, portfolio_qty,
          rows, stats, import_raised, upc, existing_data, remaining,
          uncommitted, prices_read, write_lock>>

\* ------------------------------------------------------------- helpers
EmptyDict == [x \in {} |-> 0]

Put(d, key, v) == [x \in (DOMAIN d) \cup {key} |-> IF x = key THEN v ELSE d[x]]

Get(d, key, default) == IF key \in DOMAIN d THEN d[key] ELSE default

SetMin(S) == CHOOSE x \in S : \A y \in S : x <= y

SetMax(S) == CHOOSE x \in S : \A y \in S : x >= y

RECURSIVE SumSeq(_)
SumSeq(s) == IF s = <<>> THEN 0 ELSE Head(s) + SumSeq(Tail(s))

RECURSIVE SumFn(_, _)
SumFn(f, S) ==
    IF S = {} THEN 0
    ELSE LET x == CHOOSE y \in S : TRUE IN f[x] + SumFn(f, S \ {x})

\* aggfunc='mean' of pivot_table over the prices of one cell
Mean(S) == SumFn([p \in S |-> p], S) \div Cardinality(S)

NumEvents == Len(transactions) + Len(transfers) + Len(investments)

\* ------------------------------------------------------ ledger handlers
\* app.py create_new_account: INSERT OR IGNORE (name, 0.0)
create_new_account(name) ==
    /\ pc = "idle"
    /\ spc = "idle"
    /\ name \notin DOMAIN accounts
    /\ accounts' = Put(accounts, name, 0)
    /\ UNCHANGED <<transactions, transfers, investments, market_prices, run, snap,
                   imp, sessions>>

\* app.py update_account_initial: UPDATE ... WHERE name = ?
update_account_initial(name, amount) ==
    /\ pc = "idle"
    /\ spc = "idle"
    /\ name \in DOMAIN accounts
    /\ accounts[name] # amount
    /\ accounts' = [accounts EXCEPT ![name] = amount]
    /\ UNCHANGED <<transactions, transfers, investments, market_prices, run, snap,
                   imp, sessions>>

\* app.py save_investment: one INSERT into investments
save_investment(date_inv, ticker, action, qty, price, fees, account) ==
    /\ pc = "idle"
    /\ spc = "idle"
    /\ NumEvents < MaxEvents
    /\ investments' = Append(investments,
           [date |-> date_inv, account |-> account, ticker |-> ticker,
            action |-> action, quantity |-> qty, unit_price |-> price,
            fees |-> fees])
    /\ UNCHANGED <<accounts, transactions, transfers, market_prices, run, snap,
                   imp, sessions>>

\* queries.py update_exclusion: UPDATE transactions SET is_excluded WHERE id
update_exclusion(tx_id, is_excluded) ==
    /\ pc = "idle"
    /\ spc = "idle"
    /\ tx_id \in DOMAIN transactions
    /\ transactions[tx_id].is_excluded # is_excluded
    /\ transactions' = [transactions EXCEPT ![tx_id].is_excluded = is_excluded]
    /\ UNCHANGED <<accounts, transfers, investments, market_prices, run, snap,
                   imp, sessions>>

\* importer.py ensure_accounts_exist: INSERT OR IGNORE INTO accounts
\* (name, type, initial_balance); the statement is rejected by a table that
\* has no column "type", and the sheet's handler then stops with the rows
\* already inserted
ensure_accounts_exist(accs, accounts_set) ==
    IF "type" \in AccountsColumns
    THEN [n \in (DOMAIN accs) \cup accounts_set |-> Get(accs, n, 0)]
    ELSE accs

\* importer.py process_sheet, sheets Revenus / Depenses: rows of
\* <<date, account, amount>>
SheetTransactions(sheet, t_type) ==
    [i \in DOMAIN sheet |->
        [date |-> sheet[i][1], account |-> sheet[i][2], amount |-> sheet[i][3],
         type |-> t_type, is_excluded |-> FALSE]]

\* importer.py process_sheet, sheet Transferts: rows of
\* <<date, source, target, amount>>
SheetTransfers(sheet) ==
    [i \in DOMAIN sheet |->
        [date |-> sheet[i][1], source_account |-> sheet[i][2],
         target_account |-> sheet[i][3], amount |-> sheet[i][4]]]

\* a cell of an amount column whose text is not a number
NotANumber == 0 - 2

\* importer.py safe_amount inside df.select: the cast to Float64 raises on a
\* text that is not a number, before the sheet inserts anything
SelectRaises(sheet, col) == \E i \in DOMAIN sheet : sheet[i][col] = NotANumber

\* importer.py process_sheet: the rows its executemany inserts
Inserted(sheet, col) == IF SelectRaises(sheet, col) THEN <<>> ELSE sheet

\* importer.py ensure_accounts_exist: the INSERT names the column "type"
EnsureRaises(accounts_set) ==
    accounts_set # {} /\ "type" \notin AccountsColumns

\* importer.py import_excel_file, one sheet: stats[sheet] is assigned only
\* when process_sheet returns; when it raises, the handler prints and the
\* entry keeps its 0
SheetCount(sheet, col, accounts_set) ==
    IF sheet = <<>> \/ SelectRaises(sheet, col) \/ EnsureRaises(accounts_set)
    THEN 0
    ELSE Len(sheet)

\* importer.py import_excel_file: a file that cannot be read is rolled back
\* and raised again; otherwise the three sheets in turn, each in its own
\* try/except, then commit
import_excel_file(revenus, depenses, transferts, readable) ==
    /\ pc = "idle"
    /\ spc = "idle"
    /\ Len(revenus) + Len(depenses) + Len(transferts) > 0
    /\ NumEvents + Len(revenus) + Len(depenses) + Len(transferts) <= MaxEvents
    /\ IF ~readable
       THEN /\ import_raised' = TRUE
            /\ UNCHANGED <<accounts, transactions, transfers, stats>>
       ELSE LET r == Inserted(revenus, 3)
                d == Inserted(depenses, 3)
                t == Inserted(transferts, 4)
                r_acc == {r[i][2] : i \in DOMAIN r}
                d_acc == {d[i][2] : i \in DOMAIN d}
                t_acc == {t[i][2] : i \in DOMAIN t}
                           \cup {t[i][3] : i \in DOMAIN t}
            IN /\ transactions' = transactions
                                     \o SheetTransactions(r, "INCOME")
                                     \o SheetTransactions(d, "EXPENSE")
               /\ transfers' = transfers \o SheetTransfers(t)
               /\ accounts' =
                    ensure_accounts_exist(
                        ensure_accounts_exist(
                            ensure_accounts_exist(accounts, r_acc), d_acc),
                        t_acc)
               /\ stats' = [Revenus |-> SheetCount(revenus, 3, r_acc),
                            Depenses |-> SheetCount(depenses, 3, d_acc),
                            Transferts |-> SheetCount(transferts, 4, t_acc)]
               /\ import_raised' = FALSE
    /\ UNCHANGED <<investments, market_prices, run, snap, sessions>>

\* database.py sync_accounts_from_history (called by init_db): every account
\* named by a transaction, a transfer or an investment gets a row with 0.0
sync_accounts_from_history ==
    /\ pc = "idle"
    /\ spc = "idle"
    /\ LET found_accounts ==
              {transactions[i].account : i \in DOMAIN transactions}
                \cup {transfers[i].source_account : i \in DOMAIN transfers}
                \cup {transfers[i].target_account : i \in DOMAIN transfers}
                \cup {investments[i].account : i \in DOMAIN investments}
       IN /\ ~(found_accounts \subseteq DOMAIN accounts)
          /\ accounts' = [n \in (DOMAIN accounts) \cup found_accounts |->
                             Get(accounts, n, 0)]
    /\ UNCHANGED <<transactions, transfers, investments, market_prices, run, snap,
                   imp, sessions>>

\* ------------------------------------------------------- market prices
\* the unique key of a row of market_prices
market_prices_key(r) == <<r.date, r.ticker>>

\* engine.py update_market_data, lines 21-38: the range asked for a ticker;
\* here the range begins on the last cached day, not on the day after
FetchRangeFromLast(cache, ticker) ==
    LET have == {r.date : r \in {x \in cache : x.ticker = ticker}}
    IN IF have = {} THEN <<DefaultStart, Today>>
       ELSE IF SetMax(have) >= Today THEN <<Today + 1, Today>>
       ELSE <<SetMax(have), Today>>

\* engine.py update_market_data, lines 21-38: the range asked for a ticker,
\* <<first, last>>; first > last when nothing is asked
FetchRange(cache, ticker) ==
    LET have == {r.date : r \in {x \in cache : x.ticker = ticker}}
    IN IF have = {} THEN <<DefaultStart, Today>>
       ELSE IF SetMax(have) >= Today THEN <<Today + 1, Today>>
       ELSE <<SetMax(have) + 1, Today>>

\* engine.py update_market_data, line 42: the calls of yf.download, one per
\* ticker that is not up to date, <<ticker, first day, last day>>
Requests(cache, tickers) ==
    {<<t, FetchRange(cache, t)[1], FetchRange(cache, t)[2]>> :
        t \in {x \in tickers : FetchRange(cache, x)[1] <= FetchRange(cache, x)[2]}}

\* engine.py update_market_data, lines 58-63: the records of one download;
\* here a row without a close is kept
RecordsWithNaN(cache, ticker) ==
    LET r == FetchRange(cache, ticker)
    IN {[date |-> row[1], ticker |-> ticker, price |-> row[2]] : row \in
           {x \in YfSeries[ticker] : x[1] >= r[1] /\ x[1] <= r[2]}}

\* engine.py update_market_data, lines 58-63: the records of one download,
\* the rows without a close left out
Records(cache, ticker) ==
    LET r == FetchRange(cache, ticker)
    IN {[date |-> row[1], ticker |-> ticker, price |-> row[2]] : row \in
           {x \in YfSeries[ticker] :
               x[1] >= r[1] /\ x[1] <= r[2] /\ x[2] # NaN}}

\* engine.py line 66: INSERT OR REPLACE INTO market_prices
InsertOrReplace(cache, recs) ==
    {r \in cache : \A n \in recs : market_prices_key(n) # market_prices_key(r)}
        \cup recs

\* engine.py update_market_data, lines 28-72; here the first download that
\* raises ends the loop and nothing is committed
update_market_data_abort(cache, tickers, failed) ==
    IF failed # {} THEN cache
    ELSE InsertOrReplace(cache, UNION {Records(cache, t) : t \in tickers})

\* engine.py update_market_data, lines 28-72; here the rows of a ticker are
\* deleted before its download is written
update_market_data_rewrite(cache, tickers, failed) ==
    LET asked == {q[1] : q \in Requests(cache, tickers)} \ failed
    IN {r \in cache : r.ticker \notin asked}
           \cup UNION {Records(cache, t) : t \in asked}

\* engine.py update_market_data, lines 28-72: the records of every ticker
\* whose download did not raise (failed: the tickers whose did) are written,
\* then the commit
update_market_data(cache, tickers, failed) ==
    InsertOrReplace(cache, UNION {Records(cache, t) : t \in tickers \ failed})

\* engine.py update_market_data, lines 10-73, called on its own
PriceSync(tickers, failed) ==
    /\ pc = "idle"
    /\ spc = "idle"
    /\ tickers # {}
    /\ failed \subseteq {q[1] : q \in Requests(market_prices, tickers)}
    /\ market_prices' = update_market_data(market_prices, tickers, failed)
    /\ requested' = Requests(market_prices, tickers)
    /\ fetch_failed' = failed
    /\ UNCHANGED <<ledger, pc, start_date, day, k, prices, current_cash,
                   portfolio, last_tx_prices, history, trace, result, raised,
                   snap,
                   imp, sessions>>

\* -------------------------------------------------------------- engine
\* engine.py line 88; here without the WHERE clause
TransAll == transactions

\* engine.py line 88: WHERE is_excluded = 0
Trans == SelectSeq(transactions, LAMBDA r : ~r.is_excluded)

\* engine.py lines 116-120
all_dates ==
    {Trans[i].date : i \in DOMAIN Trans}
      \cup {transfers[i].date : i \in DOMAIN transfers}
      \cup {investments[i].date : i \in DOMAIN investments}

\* engine.py line 98
unique_tickers == {investments[i].ticker : i \in DOMAIN investments}

\* engine.py lines 152-154, 164, 177, 184: the rows of one day, in row order
trans_g(d) == SelectSeq(Trans, LAMBDA r : r.date = d)

transf_g(d) == SelectSeq(transfers, LAMBDA r : r.date = d)

inv_g(d) == SelectSeq(investments, LAMBDA r : r.date = d)

\* the part of the loop body that comes next on day d, from part `from` on
PhaseFrom(from, d) ==
    IF from = "A" /\ trans_g(d) # <<>> THEN "A"
    ELSE IF from \in {"A", "B"} /\ transf_g(d) # <<>> THEN "B"
    ELSE IF from \in {"A", "B", "C"} /\ inv_g(d) # <<>> THEN "C"
    ELSE "D"

\* position after row k of a group of n rows of part ph
AfterRow(ph, n) ==
    IF k < n THEN <<ph, k + 1>>
    ELSE <<PhaseFrom(IF ph = "A" THEN "B" ELSE IF ph = "B" THEN "C" ELSE "D", day), 1>>

\* engine.py line 122: all_dates.empty and accounts.empty
NoData(dates, accs) == dates = {} /\ DOMAIN accs = {}

\* engine.py line 125: all_dates.min(), or today without a dated row
StartDateMax(dates) == IF dates # {} THEN SetMax(dates) ELSE Today

StartDate(dates) == IF dates # {} THEN SetMin(dates) ELSE Today

\* engine.py lines 83-156: load, sync the prices, build the timeline, seed
\* the state
EngineStart ==
    /\ pc = "idle"
    /\ spc = "idle"
    /\ \E failed \in SUBSET {q[1] : q \in Requests(market_prices, unique_tickers)} :
         /\ market_prices' = update_market_data(market_prices, unique_tickers, failed)
         /\ prices' = market_prices'
         /\ fetch_failed' = failed
    /\ requested' = Requests(market_prices, unique_tickers)
    /\ raised' = FALSE
    /\ history' = <<>>
    /\ trace' = <<>>
    /\ last_tx_prices' = EmptyDict
    /\ k' = 1
    /\ IF NoData(all_dates, accounts)
       THEN /\ pc' = "done"
            /\ result' = <<>>
            /\ UNCHANGED <<start_date, day, current_cash, portfolio>>
       ELSE /\ start_date' = StartDate(all_dates)
            /\ day' = start_date'
            /\ current_cash' = accounts
            /\ portfolio' = [acc \in DOMAIN accounts |-> EmptyDict]
            /\ pc' = IF start_date' > Today THEN "format"
                     ELSE PhaseFrom("A", start_date')
            /\ UNCHANGED result
    /\ UNCHANGED <<ledger, snap,
                   imp, sessions>>

\* engine.py lines 165-173: one transaction row on the dicts
\* st = [cash, portfolio, ltp, err]
ApplyTransaction(st, row) ==
    LET acc == row.account
        new == acc \notin DOMAIN st.cash
        cash0 == IF new THEN Put(st.cash, acc, 0) ELSE st.cash
        port0 == IF new THEN Put(st.portfolio, acc, EmptyDict) ELSE st.portfolio
    IN [st EXCEPT
          !.cash = [cash0 EXCEPT ![acc] =
                       IF row.type = "INCOME" THEN @ + row.amount
                       ELSE @ - row.amount],
          !.portfolio = port0]

\* engine.py lines 178-180: one transfer row on the dicts
ApplyTransfer(st, row) ==
    LET src == row.source_account
        tgt == row.target_account
        c1 == IF src \in DOMAIN st.cash
              THEN [st.cash EXCEPT ![src] = @ - row.amount] ELSE st.cash
        c2 == IF tgt \in DOMAIN c1
              THEN [c1 EXCEPT ![tgt] = @ + row.amount] ELSE c1
    IN [st EXCEPT !.cash = c2]

\* engine.py lines 203-208: the quantity after a BUY or a SELL; a SELL of
\* more than is held is refused
QtyAfterNoShort(held, action, qty) ==
    IF action = "BUY" THEN held + qty
    ELSE IF action = "SELL" /\ held >= qty THEN held - qty
    ELSE held

QtyAfter(held, action, qty) ==
    IF action = "BUY" THEN held + qty
    ELSE IF action = "SELL" THEN held - qty
    ELSE held

\* engine.py lines 191, 203-207: the cash after a BUY or a SELL
CashAfter(cash, action, total_cost, fees) ==
    IF action = "BUY" THEN cash - (total_cost + fees)
    ELSE IF action = "SELL" THEN cash + (total_cost - fees)
    ELSE cash

\* engine.py lines 185-208: one investment row on the dicts; portfolio[acc]
\* is a KeyError when acc has no entry
ApplyInvestment(st, row) ==
    LET tkr == row.ticker
        acc == row.account
        qty == row.quantity
        total_cost == qty * row.unit_price
        ltp == Put(st.ltp, tkr, row.unit_price)
        new == acc \notin DOMAIN st.cash
        cash0 == IF new THEN Put(st.cash, acc, 0) ELSE st.cash
        port0 == IF new THEN Put(st.portfolio, acc, EmptyDict) ELSE st.portfolio
    IN IF acc \notin DOMAIN port0
       THEN [cash |-> cash0, portfolio |-> port0, ltp |-> ltp, err |-> TRUE]
       ELSE LET port1 == IF tkr \in DOMAIN port0[acc] THEN port0
                         ELSE [port0 EXCEPT ![acc] = Put(@, tkr, 0)]
            IN [cash |-> [cash0 EXCEPT ![acc] =
                             CashAfter(@, row.action, total_cost, row.fees)],
                portfolio |-> [port1 EXCEPT ![acc][tkr] =
                                  QtyAfter(@, row.action, qty)],
                ltp |-> ltp, err |-> st.err]

State == [cash |-> current_cash, portfolio |-> portfolio,
          ltp |-> last_tx_prices, err |-> raised]

\* the run's dicts and position after one row; an exception ends the run
Advance(st, ph, n) ==
    /\ current_cash' = st.cash
    /\ portfolio' = st.portfolio
    /\ last_tx_prices' = st.ltp
    /\ raised' = st.err
    /\ IF st.err
       THEN pc' = "done" /\ k' = k
       ELSE pc' = AfterRow(ph, n)[1] /\ k' = AfterRow(ph, n)[2]
    /\ UNCHANGED <<ledger, market_prices, start_date, day, prices, history,
                   trace, result, requested, fetch_failed, snap,
                   imp, sessions>>

\* engine.py lines 163-173, one iteration
EngineTransaction ==
    /\ pc = "A"
    /\ Advance(ApplyTransaction(State, trans_g(day)[k]), "A", Len(trans_g(day)))

\* engine.py lines 176-180, one iteration
EngineTransfer ==
    /\ pc = "B"
    /\ Advance(ApplyTransfer(State, transf_g(day)[k]), "B", Len(transf_g(day)))

\* engine.py lines 183-208, one iteration
EngineInvestment ==
    /\ pc = "C"
    /\ Advance(ApplyInvestment(State, inv_g(day)[k]), "C", Len(inv_g(day)))

\* engine.py lines 133-138 and 220-224: price_matrix.at[day, tkr] of the
\* pivot reindexed to the timeline and forward filled; 0.0 when the column
\* is missing or the cell is NaN
MarketPrice(pr, first, d, tkr) ==
    LET rs == {r \in pr : r.ticker = tkr /\ r.date \in first..d}
    IN IF rs = {} THEN 0
       ELSE LET last == SetMax({r.date : r \in rs})
            IN Mean({r.price : r \in {x \in rs : x.date = last}})

\* engine.py lines 220-228: the market price of the day, the last unit
\* price seen when there is none
PriceFor(pr, ltp, first, d, tkr) ==
    LET m == MarketPrice(pr, first, d, tkr)
    IN IF m = 0 THEN Get(ltp, tkr, 0) ELSE m

\* engine.py lines 218-230: the value of one holding; here also of a
\* holding that is not above zero
HoldingValueSigned(pr, ltp, first, d, tkr, qty) ==
    qty * PriceFor(pr, ltp, first, d, tkr)

HoldingValue(pr, ltp, first, d, tkr, qty) ==
    IF qty > 0 THEN qty * PriceFor(pr, ltp, first, d, tkr) ELSE 0

\* engine.py lines 213-232: account_invest_val
AccountInvestVal(st, pr, first, d) ==
    [acc \in DOMAIN st.portfolio |->
        SumFn([tkr \in DOMAIN st.portfolio[acc] |->
                  HoldingValue(pr, st.ltp, first, d, tkr, st.portfolio[acc][tkr])],
              DOMAIN st.portfolio[acc])]

\* engine.py line 231: account_invest_val[acc] += val is a KeyError when the
\* account has a valued holding and no cash entry
ValuationRaises(st, pr, first, d) ==
    \E acc \in (DOMAIN st.portfolio) \ (DOMAIN st.cash) :
        \E tkr \in DOMAIN st.portfolio[acc] : st.portfolio[acc][tkr] > 0

\* engine.py lines 236-244: the record of the day
Record(st, pr, first, d) ==
    LET inv == AccountInvestVal(st, pr, first, d)
    IN [date |-> d,
        Total_Invest |-> SumFn(inv, DOMAIN inv),
        cols |-> [acc \in DOMAIN st.cash |-> st.cash[acc] + Get(inv, acc, 0)]]

\* engine.py lines 213-246, then the next day of the loop
EngineValuation ==
    /\ pc = "D"
    /\ IF ValuationRaises(State, prices, start_date, day)
       THEN /\ raised' = TRUE
            /\ pc' = "done"
            /\ UNCHANGED <<history, trace, day>>
       ELSE /\ history' = Append(history, Record(State, prices, start_date, day))
            /\ trace' = Append(trace, [cash |-> current_cash,
                                       portfolio |-> portfolio,
                                       ltp |-> last_tx_prices])
            /\ raised' = raised
            /\ IF day < Today
               THEN day' = day + 1 /\ pc' = PhaseFrom("A", day + 1)
               ELSE day' = day /\ pc' = "format"
    /\ k' = 1
    /\ UNCHANGED <<ledger, market_prices, start_date, prices, current_cash,
                   portfolio, last_tx_prices, result, requested, fetch_failed,
                   snap,
                   imp, sessions>>

\* engine.py lines 252-258: the frame of the records with Total Wealth;
\* here the sum takes every numeric column, Total Invest too
WithTotalWealthAll(hist) ==
    [i \in DOMAIN hist |->
        [date |-> hist[i].date,
         Total_Invest |-> hist[i].Total_Invest,
         cols |-> hist[i].cols,
         Total_Wealth |-> SumFn(hist[i].cols, DOMAIN hist[i].cols)
                            + hist[i].Total_Invest]]

\* engine.py lines 252-258: the frame of the records with Total Wealth, the
\* sum of the account cells of the row that are not NaN
WithTotalWealth(hist) ==
    [i \in DOMAIN hist |->
        [date |-> hist[i].date,
         Total_Invest |-> hist[i].Total_Invest,
         cols |-> hist[i].cols,
         Total_Wealth |-> SumFn(hist[i].cols, DOMAIN hist[i].cols)]]

\* engine.py lines 249-264
EngineFormat ==
    /\ pc = "format"
    /\ result' = IF history = <<>> THEN <<>> ELSE WithTotalWealth(history)
    /\ pc' = "done"
    /\ UNCHANGED <<ledger, market_prices, start_date, day, k, prices,
                   current_cash, portfolio, last_tx_prices, history, trace,
                   raised, requested, fetch_failed, snap,
                   imp, sessions>>

\* the caller takes the table; the locals of the run are gone
EngineReturn ==
    /\ pc = "done"
    /\ pc' = "idle"
    /\ start_date' = 1
    /\ day' = 1
    /\ k' = 1
    /\ prices' = {}
    /\ requested' = {}
    /\ fetch_failed' = {}
    /\ current_cash' = EmptyDict
    /\ portfolio' = EmptyDict
    /\ last_tx_prices' = EmptyDict
    /\ history' = <<>>
    /\ trace' = <<>>
    /\ result' = <<>>
    /\ raised' = FALSE
    /\ UNCHANGED <<ledger, market_prices, snap,
                   imp, sessions>>

\* ------------------------------------------------------------ snapshot
\* engine.py lines 283-291: one transaction row on cash_balances
SnapTransaction(cash, row) ==
    IF row.account \in DOMAIN cash
    THEN [cash EXCEPT ![row.account] =
             IF row.type = "INCOME" THEN @ + row.amount ELSE @ - row.amount]
    ELSE cash

\* engine.py lines 297-299: one transfer row on cash_balances
SnapTransfer(cash, row) ==
    LET c1 == IF row.source_account \in DOMAIN cash
              THEN [cash EXCEPT ![row.source_account] = @ - row.amount]
              ELSE cash
    IN IF row.target_account \in DOMAIN c1
       THEN [c1 EXCEPT ![row.target_account] = @ + row.amount]
       ELSE c1

RECURSIVE FoldRows(_, _, _)
\* a loop `for row in frame` that rebinds the dict; kind picks the row rule
FoldRows(cash, frame, kind) ==
    IF frame = <<>> THEN cash
    ELSE FoldRows(IF kind = "tx" THEN SnapTransaction(cash, Head(frame))
                  ELSE SnapTransfer(cash, Head(frame)),
                  Tail(frame), kind)

\* engine.py lines 283-284, 294-295, 302-303: WHERE date <= target
txs(target) ==
    SelectSeq(transactions, LAMBDA r : r.date <= target /\ ~r.is_excluded)

trs(target) == SelectSeq(transfers, LAMBDA r : r.date <= target)

invs(target) == SelectSeq(investments, LAMBDA r : r.date <= target)

\* engine.py lines 319-323: the cash side of one investment row
SnapInvestmentCash(cash, row) ==
    LET total_cost == row.quantity * row.unit_price
    IN IF row.account \in DOMAIN cash
       THEN IF row.action = "BUY"
            THEN [cash EXCEPT ![row.account] = @ - (total_cost + row.fees)]
            ELSE IF row.action = "SELL"
            THEN [cash EXCEPT ![row.account] = @ + (total_cost - row.fees)]
            ELSE cash
       ELSE cash

\* engine.py lines 326-330: the quantity side of one investment row
SnapInvestmentQty(pq, row) ==
    LET key == <<row.account, row.ticker>>
        pq0 == IF key \in DOMAIN pq THEN pq ELSE Put(pq, key, 0)
    IN IF row.action = "BUY" THEN [pq0 EXCEPT ![key] = @ + row.quantity]
       ELSE IF row.action = "SELL" THEN [pq0 EXCEPT ![key] = @ - row.quantity]
       ELSE pq0

\* engine.py lines 273-306: the balances, then the transactions and the
\* transfers up to the target date
SnapshotStart(target) ==
    /\ pc = "idle"
    /\ spc = "idle"
    /\ target_date' = target
    /\ cash_balances' = FoldRows(FoldRows(accounts, txs(target), "tx"),
                                 trs(target), "tr")
    /\ portfolio_qty' = EmptyDict
    /\ sk' = 1
    /\ rows' = {}
    /\ spc' = IF invs(target) = <<>> THEN "rows" ELSE "inv"
    /\ UNCHANGED <<ledger, market_prices, run,
                   imp, sessions>>

\* engine.py lines 309-330, one iteration
SnapshotInvestment ==
    /\ spc = "inv"
    /\ cash_balances' = SnapInvestmentCash(cash_balances, invs(target_date)[sk])
    /\ portfolio_qty' = SnapInvestmentQty(portfolio_qty, invs(target_date)[sk])
    /\ IF sk < Len(invs(target_date))
       THEN sk' = sk + 1 /\ spc' = "inv"
       ELSE sk' = 1 /\ spc' = "rows"
    /\ UNCHANGED <<ledger, market_prices, run, target_date, rows,
                   imp, sessions>>

\* engine.py lines 363-378: the price map; here the latest cached price,
\* whatever the target date
price_map_latest(cache, tickers, target) ==
    LET have(t) == {r \in cache : r.ticker = t}
        last(t) == SetMax({r.date : r \in have(t)})
    IN [t \in {x \in tickers : have(x) # {}} |->
           (CHOOSE r \in have(t) : r.date = last(t)).price]

\* engine.py lines 363-378: the cached price with the latest date on or
\* before the target date, for the tickers that have one
price_map(cache, tickers, target) ==
    LET have(t) == {r \in cache : r.ticker = t /\ r.date <= target}
        last(t) == SetMax({r.date : r \in have(t)})
    IN [t \in {x \in tickers : have(x) # {}} |->
           (CHOOSE r \in have(t) : r.date = last(t)).price]

\* engine.py lines 339-349: the cash lines
CashLines(cash) ==
    {[Account |-> acc, Type |-> "Liquidites", Ticker |-> "CASH",
      Quantity |-> 1, UnitPrice |-> cash[acc], Value |-> cash[acc]] :
        acc \in {a \in DOMAIN cash : cash[a] > CashEps \/ 0 - cash[a] > CashEps}}

\* engine.py lines 353-393: the investment lines; here a holding has a line
\* when its quantity is above the threshold of the cash lines
InvestLinesCashEps(pq, cache, target) ==
    LET active_tickers == {key[2] : key \in {x \in DOMAIN pq : pq[x] > CashEps}}
        pm == price_map(cache, active_tickers, target)
    IN {[Account |-> key[1], Type |-> "Investissement", Ticker |-> key[2],
         Quantity |-> pq[key], UnitPrice |-> Get(pm, key[2], 0),
         Value |-> pq[key] * Get(pm, key[2], 0)] :
           key \in {x \in DOMAIN pq : pq[x] > CashEps}}

\* engine.py lines 353-393: the investment lines
InvestLines(pq, cache, target) ==
    LET active_tickers == {key[2] : key \in {x \in DOMAIN pq : pq[x] > 0}}
        pm == price_map(cache, active_tickers, target)
    IN {[Account |-> key[1], Type |-> "Investissement", Ticker |-> key[2],
         Quantity |-> pq[key], UnitPrice |-> Get(pm, key[2], 0),
         Value |-> pq[key] * Get(pm, key[2], 0)] :
           key \in {x \in DOMAIN pq : pq[x] > 0}}

\* engine.py lines 336-395
SnapshotRows ==
    /\ spc = "rows"
    /\ rows' = CashLines(cash_balances)
                 \cup InvestLines(portfolio_qty, market_prices, target_date)
    /\ spc' = "done"
    /\ UNCHANGED <<ledger, market_prices, run, target_date, sk, cash_balances,
                   portfolio_qty,
                   imp, sessions>>

\* the caller takes the lines; the locals of the call are gone
SnapshotReturn ==
    /\ spc = "done"
    /\ spc' = "idle"
    /\ target_date' = 1
    /\ sk' = 1
    /\ cash_balances' = EmptyDict
    /\ portfolio_qty' = EmptyDict
    /\ rows' = {}
    /\ UNCHANGED <<ledger, market_prices, run,
                   imp, sessions>>

\* ------------------------------------------------------- specification
InitRest ==
    /\ accounts = EmptyDict
    /\ transactions = <<>>
    /\ transfers = <<>>
    /\ investments = <<>>
    /\ pc = "idle"
    /\ start_date = 1
    /\ day = 1
    /\ k = 1
    /\ prices = {}
    /\ current_cash = EmptyDict
    /\ portfolio = EmptyDict
    /\ last_tx_prices = EmptyDict
    /\ history = <<>>
    /\ trace = <<>>
    /\ result = <<>>
    /\ raised = FALSE
    /\ requested = {}
    /\ fetch_failed = {}
    /\ spc = "idle"
    /\ target_date = 1
    /\ sk = 1
    /\ cash_balances = EmptyDict
    /\ portfolio_qty = EmptyDict
    /\ rows = {}
    /\ stats = [Revenus |-> 0, Depenses |-> 0, Transferts |-> 0]
    /\ import_raised = FALSE
    /\ upc = [s \in Sessions |-> "idle"]
    /\ existing_data = [s \in Sessions |-> {}]
    /\ remaining = [s \in Sessions |-> {}]
    /\ uncommitted = [s \in Sessions |-> {}]
    /\ prices_read = [s \in Sessions |-> {}]
    /\ write_lock = 0

Init == market_prices = {} /\ InitRest

\* the sheets a file can hold: at most one row each
SheetRows == {<<>>} \cup {<<r>> : r \in Dates \X Names \X TxAmounts}

TransferRows ==
    {<<>>} \cup {<<r>> : r \in {x \in Dates \X Names \X Names \X TransferAmounts :
                                  x[2] # x[3]}}

Next ==
    \/ \E name \in Names : create_new_account(name)
    \/ \E name \in Names, amount \in InitBalances \cup {0} :
           update_account_initial(name, amount)
    \/ \E d \in Dates, t \in Tickers, a \in {"BUY", "SELL"}, q \in Quantities,
          p \in UnitPrices, f \in FeeValues, n \in Names :
           save_investment(d, t, a, q, p, f, n)
    \/ \E id \in 1..MaxEvents, e \in BOOLEAN : update_exclusion(id, e)
    \/ \E r \in SheetRows, d \in SheetRows, t \in TransferRows :
           import_excel_file(r, d, t, TRUE)
    \/ sync_accounts_from_history
    \/ EngineStart
    \/ EngineTransaction
    \/ EngineTransfer
    \/ EngineInvestment
    \/ EngineValuation
    \/ EngineFormat
    \/ EngineReturn
    \/ \E target \in Dates : SnapshotStart(target)
    \/ SnapshotInvestment
    \/ SnapshotRows
    \/ SnapshotReturn

Spec == Init /\ [][Next]_vars

\* the price sync on its own, from any cache earlier syncs can have left:
\* at most one row per key, dated up to today, with a price the source had
\* on the day of that sync
CachePrices == {4, 6}

Caches ==
    {c \in SUBSET [date : 1..Today, ticker : Tickers, price : CachePrices] :
        \A r1, r2 \in c :
            market_prices_key(r1) = market_prices_key(r2) => r1 = r2}

SyncInit == market_prices \in Caches /\ InitRest

SyncNext ==
    \E tickers \in SUBSET Tickers : \E failed \in SUBSET tickers :
        PriceSync(tickers, failed)

SyncSpec == SyncInit /\ [][SyncNext]_vars

\* ------------------------------------------- two sessions, one database
\* engine.py line 99: unique() keeps the tickers in order of first appearance
NextTicker(todo) ==
    LET first(t) == SetMin({i \in DOMAIN investments :
                               investments[i].ticker = t})
    IN CHOOSE t \in todo : \A u \in todo : first(t) <= first(u)

\* engine.py lines 97-104 and update_market_data lines 14-26: the session
\* reads the tickers of the ledger and, when there is one, the committed
\* rows of market_prices
SessionStart(s) ==
    /\ upc[s] = "idle"
    /\ existing_data' = [existing_data EXCEPT ![s] =
                            IF unique_tickers = {} THEN {} ELSE market_prices]
    /\ remaining' = [remaining EXCEPT ![s] = unique_tickers]
    /\ upc' = [upc EXCEPT ![s] =
                  IF unique_tickers = {} THEN "read" ELSE "loop"]
    /\ UNCHANGED <<ledger, market_prices, run, snap, imp, uncommitted,
                   prices_read, write_lock>>

\* update_market_data lines 28-70, one ticker (the source answers): the
\* INSERT takes the write lock of the database, kept until the commit; when
\* the other session holds it the statement waits and, after the timeout of
\* sqlite3.connect, raises "database is locked" into the except of line 69
SessionTicker(s) ==
    /\ upc[s] = "loop"
    /\ remaining[s] # {}
    /\ LET ticker == NextTicker(remaining[s])
           records == Records(existing_data[s], ticker)
       IN /\ remaining' = [remaining EXCEPT ![s] = @ \ {ticker}]
          /\ IF records # {} /\ write_lock \in {0, s}
             THEN /\ uncommitted' = [uncommitted EXCEPT ![s] =
                                        InsertOrReplace(@, records)]
                  /\ write_lock' = s
             ELSE UNCHANGED <<uncommitted, write_lock>>
    /\ UNCHANGED <<ledger, market_prices, run, snap, imp, upc, existing_data,
                   prices_read>>

\* update_market_data line 72: the commit publishes the session's rows and
\* gives the lock back
SessionCommit(s) ==
    /\ upc[s] = "loop"
    /\ remaining[s] = {}
    /\ market_prices' = InsertOrReplace(market_prices, uncommitted[s])
    /\ uncommitted' = [uncommitted EXCEPT ![s] = {}]
    /\ write_lock' = IF write_lock = s THEN 0 ELSE write_lock
    /\ upc' = [upc EXCEPT ![s] = "read"]
    /\ UNCHANGED <<ledger, run, snap, imp, existing_data, remaining,
                   prices_read>>

\* engine.py lines 106-108: the prices of the run are the committed rows
SessionRead(s) ==
    /\ upc[s] = "read"
    /\ prices_read' = [prices_read EXCEPT ![s] = market_prices]
    /\ upc' = [upc EXCEPT ![s] = "done"]
    /\ UNCHANGED <<ledger, market_prices, run, snap, imp, existing_data,
                   remaining, uncommitted, write_lock>>

\* the session has its table; its locals are gone
SessionReturn(s) ==
    /\ upc[s] = "done"
    /\ upc' = [upc EXCEPT ![s] = "idle"]
    /\ existing_data' = [existing_data EXCEPT ![s] = {}]
    /\ prices_read' = [prices_read EXCEPT ![s] = {}]
    /\ UNCHANGED <<ledger, market_prices, run, snap, imp, remaining,
                   uncommitted, write_lock>>

\* the orders are entered while no session runs
ConcNext ==
    \/ /\ \A s \in Sessions : upc[s] = "idle"
       /\ \E d \in Dates, t \in Tickers, a \in {"BUY", "SELL"},
             q \in Quantities, p \in UnitPrices, f \in FeeValues, n \in Names :
              save_investment(d, t, a, q, p, f, n)
    \/ \E s \in Sessions : SessionStart(s)
    \/ \E s \in Sessions : SessionTicker(s)
    \/ \E s \in Sessions : SessionCommit(s)
    \/ \E s \in Sessions : SessionRead(s)
    \/ \E s \in Sessions : SessionReturn(s)

ConcSpec == Init /\ [][ConcNext]_vars

\* ------------------------------------------ orders at two unit prices
OrderUnitPrices == {3, 4}

\* the order form and the engine, on a ledger of orders alone
OrderNext ==
    \/ \E d \in Dates, t \in Tickers, a \in {"BUY", "SELL"}, q \in Quantities,
          p \in OrderUnitPrices, f \in FeeValues, n \in Names :
           save_investment(d, t, a, q, p, f, n)
    \/ EngineStart
    \/ EngineInvestment
    \/ EngineValuation
    \/ EngineFormat
    \/ EngineReturn

OrderSpec == Init /\ [][OrderNext]_vars

\* ------------------------------------------------- files of every kind
\* the sheets of a file dated today, a cell that is not a number among the
\* amounts
FileRows ==
    {<<>>} \cup {<<r>> : r \in {Today} \X Names \X (TxAmounts \cup {NotANumber})}

FileTransferRows ==
    {<<>>} \cup {<<r>> : r \in
                    {x \in {Today} \X Names \X Names
                              \X (TransferAmounts \cup {NotANumber}) :
                        x[2] # x[3]}}

\* app.py lines 92-97: what the import tab shows after the call
ImportMessage == IF import_raised THEN "Erreur" ELSE "Import reussi"

ImportNext ==
    \/ \E name \in Names : create_new_account(name)
    \/ \E r \in FileRows, d \in FileRows, t \in FileTransferRows,
          readable \in BOOLEAN :
           import_excel_file(r, d, t, readable)

ImportSpec == Init /\ [][ImportNext]_vars

\* ---------------------------------------------------------- properties
\* What the ledger says, computed from the tables alone.

\* the day of the i-th record of the run
DayOf(i) == start_date + i - 1

\* the dates of the rows the engine reads
LedgerDates ==
    {transactions[i].date : i \in {j \in DOMAIN transactions :
                                     ~transactions[j].is_excluded}}
      \cup {transfers[i].date : i \in DOMAIN transfers}
      \cup {investments[i].date : i \in DOMAIN investments}

FirstDate == IF LedgerDates # {} THEN SetMin(LedgerDates) ELSE Today

\* the ledger has an account or a row the engine reads
HasData == LedgerDates # {} \/ DOMAIN accounts # {}

TxSigned(r, acc) ==
    IF r.account = acc /\ ~r.is_excluded
    THEN (IF r.type = "INCOME" THEN r.amount ELSE 0 - r.amount)
    ELSE 0

TrSigned(r, acc) ==
    (IF r.target_account = acc THEN r.amount ELSE 0)
      - (IF r.source_account = acc THEN r.amount ELSE 0)

InvSigned(r, acc) ==
    IF r.account # acc THEN 0
    ELSE IF r.action = "BUY" THEN 0 - (r.quantity * r.unit_price + r.fees)
    ELSE r.quantity * r.unit_price - r.fees

\* signed cash movements touching acc dated on or before d
CashMovesUpTo(acc, d) ==
    SumSeq([i \in DOMAIN transactions |->
               IF transactions[i].date <= d THEN TxSigned(transactions[i], acc)
               ELSE 0])
      + SumSeq([i \in DOMAIN transfers |->
                   IF transfers[i].date <= d THEN TrSigned(transfers[i], acc)
                   ELSE 0])
      + SumSeq([i \in DOMAIN investments |->
                   IF investments[i].date <= d
                   THEN InvSigned(investments[i], acc) ELSE 0])

\* signed quantity of tkr ordered on acc on or before d
SignedQtyUpTo(acc, tkr, d) ==
    SumSeq([i \in DOMAIN investments |->
               IF investments[i].date <= d /\ investments[i].account = acc
                  /\ investments[i].ticker = tkr
               THEN (IF investments[i].action = "BUY"
                     THEN investments[i].quantity
                     ELSE 0 - investments[i].quantity)
               ELSE 0])

\* the accounts named by a row the engine reads dated on or before d
ReferencedUpTo(d) ==
    {transactions[i].account : i \in {j \in DOMAIN transactions :
         ~transactions[j].is_excluded /\ transactions[j].date <= d}}
      \cup {transfers[i].source_account : i \in {j \in DOMAIN transfers :
                                                  transfers[j].date <= d}}
      \cup {transfers[i].target_account : i \in {j \in DOMAIN transfers :
                                                  transfers[j].date <= d}}
      \cup {investments[i].account : i \in {j \in DOMAIN investments :
                                              investments[j].date <= d}}

\* C1 - Conservation: without investment orders, Total Wealth of every row
\* is the sum of the initial balances plus the signed transaction amounts
\* dated on or before the row's day; transfers, also those naming an account
\* that has no row in accounts, add nothing.
C1_Conservation ==
    (pc = "done" /\ investments = <<>>) =>
        \A i \in DOMAIN result :
            result[i].Total_Wealth =
                SumFn(accounts, DOMAIN accounts)
                  + SumFn([acc \in Names |-> CashMovesUpTo(acc, result[i].date)],
                          Names)

\* C2 - Every account of the replay has, after each day D, the cash
\* initial balance + signed cash movements touching it dated on or before D.
C2_CashIdentity ==
    \A i \in DOMAIN trace :
        \A acc \in DOMAIN trace[i].cash :
            trace[i].cash[acc] =
                Get(accounts, acc, 0) + CashMovesUpTo(acc, DayOf(i))

\* C3 - Every account named by a transaction, a transfer (source or target)
\* or an investment order dated on or before D is in the replay state after
\* day D, and the run raises nothing.
C3_AutoCreate ==
    /\ ~raised
    /\ \A i \in DOMAIN trace :
           ReferencedUpTo(DayOf(i)) \subseteq DOMAIN trace[i].cash

\* C4 - Every account of the ledger (a row of accounts, or named by a row
\* the engine replays) has a number in every row of the table, from the
\* first day on.
C4_ColumnsDefined ==
    pc = "done" =>
        \A i \in DOMAIN result :
            (DOMAIN accounts) \cup ReferencedUpTo(Today)
                \subseteq DOMAIN result[i].cols

\* the rows of the table are the days first..Today, one each, in order
IsCalendar(table, first) ==
    /\ Len(table) = Today - first + 1
    /\ \A i \in DOMAIN table : table[i].date = first + i - 1

\* C5 - The rows of the table are exactly the days from the minimum date of
\* the rows read (today when the ledger has only balances) to today, one
\* row per day, in increasing order, without gap or duplicate.
C5_Calendar == (pc = "done" /\ HasData) => IsCalendar(result, FirstDate)

\* a run over a ledger that also holds a row dated after today ended with
\* a two-day table
C5_Witness ==
    /\ pc = "done"
    /\ Len(result) = 2
    /\ \E d \in LedgerDates : d > Today

\* C6 - The run raises nothing and returns the empty table only for the
\* ledger that has no account and no row to read.
C6_EmptyOnlyIfNoData == pc = "done" => (~raised /\ (result = <<>> <=> ~HasData))

\* the quantity of tkr a dict of dicts holds for acc, 0 without an entry
Held(port, acc, tkr) == Get(Get(port, acc, EmptyDict), tkr, 0)

QtyDelta(row) ==
    IF row.action = "BUY" THEN row.quantity ELSE 0 - row.quantity

\* the replay step of one order: cash of its account and quantity of its
\* ticker on that account move as the order says, nothing else moves
EngineOrderFrame ==
    pc = "C" =>
        LET row == inv_g(day)[k]
        IN /\ row.account \in DOMAIN current_cash'
           /\ current_cash'[row.account] =
                  Get(current_cash, row.account, 0) + InvSigned(row, row.account)
           /\ Held(portfolio', row.account, row.ticker) =
                  Held(portfolio, row.account, row.ticker) + QtyDelta(row)
           /\ \A a \in Names \ {row.account} :
                  /\ a \in DOMAIN current_cash' <=> a \in DOMAIN current_cash
                  /\ a \in DOMAIN current_cash =>
                         current_cash'[a] = current_cash[a]
           /\ \A a \in Names, t \in Tickers :
                  <<a, t>> # <<row.account, row.ticker>> =>
                      Held(portfolio', a, t) = Held(portfolio, a, t)

\* the same for the step of one order in the snapshot
SnapOrderFrame ==
    spc = "inv" =>
        LET row == invs(target_date)[sk]
            key == <<row.account, row.ticker>>
        IN /\ row.account \in DOMAIN cash_balances'
           /\ cash_balances'[row.account] =
                  Get(cash_balances, row.account, 0) + InvSigned(row, row.account)
           /\ Get(portfolio_qty', key, 0) =
                  Get(portfolio_qty, key, 0) + QtyDelta(row)
           /\ \A a \in Names \ {row.account} :
                  /\ a \in DOMAIN cash_balances' <=> a \in DOMAIN cash_balances
                  /\ a \in DOMAIN cash_balances =>
                         cash_balances'[a] = cash_balances[a]
           /\ \A a \in Names, t \in Tickers :
                  <<a, t>> # key =>
                      Get(portfolio_qty', <<a, t>>, 0) = Get(portfolio_qty, <<a, t>>, 0)

\* C7 - Applying one investment order, in the replay and in the snapshot,
\* moves the cash of the order's account by -(quantity*unit_price + fees)
\* for BUY or +(quantity*unit_price - fees) for SELL and its quantity of the
\* order's ticker by +quantity or -quantity; the cash and the holdings of
\* the other accounts and the other tickers stay as they were.
C7_OrderFrame == [][EngineOrderFrame /\ SnapOrderFrame]_vars

\* C8 - The quantity held of every (account, ticker) after day D, in the
\* replay and in the snapshot, is the running sum of the signed order
\* quantities dated on or before D, negative when more was sold than held,
\* and nothing is raised.
C8_RunningQuantity ==
    /\ ~raised
    /\ \A i \in DOMAIN trace : \A acc \in Names, tkr \in Tickers :
           Held(trace[i].portfolio, acc, tkr) = SignedQtyUpTo(acc, tkr, DayOf(i))
    /\ spc \in {"rows", "done"} =>
           \A acc \in Names, tkr \in Tickers :
               Get(portfolio_qty, <<acc, tkr>>, 0)
                   = SignedQtyUpTo(acc, tkr, target_date)

\* a replay ended with a day on which a holding is negative
C8_Witness ==
    /\ pc = "done"
    /\ ~raised
    /\ \E i \in DOMAIN trace : \E acc \in Names, tkr \in Tickers :
           Held(trace[i].portfolio, acc, tkr) < 0

\* the price the replay has for tkr on the day of record i: the cached price
\* forward filled over the timeline, else the last unit price seen, else 0
PriceOn(i, tkr) ==
    LET m == MarketPrice(prices, start_date, DayOf(i), tkr)
    IN IF m # 0 THEN m ELSE Get(trace[i].ltp, tkr, 0)

\* value of the holdings of acc on the day of record i, every holding
\* counted with its signed quantity
SignedValue(i, acc) ==
    LET h == Get(trace[i].portfolio, acc, EmptyDict)
    IN SumFn([tkr \in DOMAIN h |-> h[tkr] * PriceOn(i, tkr)], DOMAIN h)

\* the same with the holdings of positive quantity only
PositiveValue(i, acc) ==
    LET h == Get(trace[i].portfolio, acc, EmptyDict)
    IN SumFn([tkr \in DOMAIN h |->
                 IF h[tkr] > 0 THEN h[tkr] * PriceOn(i, tkr) ELSE 0],
             DOMAIN h)

\* C9 (as stated) - every account column of every row is the cash of the
\* day plus the sum over the account's holdings of quantity times price,
\* a negative quantity included.
C9_SignedValuation ==
    pc = "done" =>
        \A i \in DOMAIN result : \A acc \in DOMAIN result[i].cols :
            result[i].cols[acc] = trace[i].cash[acc] + SignedValue(i, acc)

\* C9 - every account column of every row is the cash of the day plus the
\* sum, over the account's holdings of positive quantity, of quantity times
\* price; a holding whose running quantity is zero or negative adds nothing.
C9_PositiveValuation ==
    pc = "done" =>
        \A i \in DOMAIN result : \A acc \in DOMAIN result[i].cols :
            result[i].cols[acc] = trace[i].cash[acc] + PositiveValue(i, acc)

\* a replay ended with a row in which one account has a holding above zero
\* and a holding below zero, both priced
C9_Witness ==
    /\ pc = "done"
    /\ \E i \in DOMAIN result : \E acc \in DOMAIN result[i].cols :
           \E t1, t2 \in DOMAIN trace[i].portfolio[acc] :
               /\ trace[i].portfolio[acc][t1] > 0
               /\ trace[i].portfolio[acc][t2] < 0
               /\ PriceOn(i, t1) > 0
               /\ PriceOn(i, t2) > 0

\* C10 - In every row Total Invest is the sum over the accounts of the value
\* of their holdings, Total Wealth is the sum of the account cells of the
\* row, and that is the sum of the cash balances plus Total Invest.
C10_Totals ==
    pc = "done" =>
        \A i \in DOMAIN result :
            LET accs == DOMAIN trace[i].cash
            IN /\ result[i].Total_Invest =
                      SumFn([acc \in accs |-> PositiveValue(i, acc)], accs)
               /\ result[i].Total_Wealth =
                      SumFn(result[i].cols, DOMAIN result[i].cols)
               /\ result[i].Total_Wealth =
                      SumFn(trace[i].cash, accs) + result[i].Total_Invest

\* a replay ended with a row of the day an account was created on, with
\* holdings of value on two accounts
C10_Witness ==
    /\ pc = "done"
    /\ \E i \in DOMAIN result :
           /\ i > 1
           /\ DOMAIN result[i].cols # DOMAIN result[i - 1].cols
           /\ \A acc \in Names :
                  acc \in DOMAIN trace[i].cash /\ PositiveValue(i, acc) > 0

\* the cached price of tkr with the latest date on or before d, 0 without one
CachedOnOrBefore(cache, tkr, d) ==
    LET rs == {r \in cache : r.ticker = tkr /\ r.date <= d}
    IN IF rs = {} THEN 0
       ELSE (CHOOSE r \in rs : \A x \in rs : x.date <= r.date).price

\* tkr has a cached price dated on or before d
HasCached(cache, tkr, d) == \E r \in cache : r.ticker = tkr /\ r.date <= d

\* the price the order of preference gives for tkr on the day of record i:
\* the cached price on or before the day, else the unit price of the last
\* order of tkr on or before the day, else 0
PreferredPrice(i, tkr) ==
    IF HasCached(prices, tkr, DayOf(i))
    THEN CachedOnOrBefore(prices, tkr, DayOf(i))
    ELSE Get(trace[i].ltp, tkr, 0)

\* C11 - Every holding above zero is valued, on every day D of the table,
\* at the cached price with the latest date on or before D whenever the
\* cache has one (a price dated before the first day of the calendar
\* included), else at the unit price of the most recent order of the ticker
\* dated on or before D, else at zero.
C11_PriceOrder ==
    pc = "done" =>
        \A i \in DOMAIN result : \A acc \in DOMAIN result[i].cols :
            LET h == Get(trace[i].portfolio, acc, EmptyDict)
            IN result[i].cols[acc] =
                   trace[i].cash[acc]
                     + SumFn([tkr \in DOMAIN h |->
                                 IF h[tkr] > 0
                                 THEN h[tkr] * PreferredPrice(i, tkr) ELSE 0],
                             DOMAIN h)

\* the filled series of tkr at day d: the cached point with the latest date
\* on or before d (forward fill), the first cached point when d is before
\* every cached point (backward fill)
FilledPrice(cache, tkr, d) ==
    LET rs == {r \in cache : r.ticker = tkr}
    IN IF HasCached(cache, tkr, d) THEN CachedOnOrBefore(cache, tkr, d)
       ELSE (CHOOSE r \in rs : \A x \in rs : r.date <= x.date).price

\* C12 - For a ticker with at least one cached price every day of the table
\* has a market price that is not zero and not missing; a day before the
\* first cached point has the price of that first point (backward fill): a
\* holding above zero of such a ticker is valued at that price on such a day.
C12_BackFill ==
    pc = "done" =>
        \A i \in DOMAIN result : \A acc \in DOMAIN result[i].cols :
            LET h == Get(trace[i].portfolio, acc, EmptyDict)
            IN (\A tkr \in DOMAIN h :
                    h[tkr] > 0 => /\ \E r \in prices : r.ticker = tkr
                                  /\ ~HasCached(prices, tkr, DayOf(i)))
               => result[i].cols[acc] =
                      trace[i].cash[acc]
                        + SumFn([tkr \in DOMAIN h |->
                                    IF h[tkr] > 0
                                    THEN h[tkr] * FilledPrice(prices, tkr, DayOf(i))
                                    ELSE 0],
                                DOMAIN h)

\* the dates the cache holds for tkr
CachedDates(cache, tkr) == {r.date : r \in {x \in cache : x.ticker = tkr}}

\* the step of the run that syncs the prices
IsSyncStep == pc = "idle" /\ pc' # "idle"

\* a download of tkr was asked that covers the days first..last
Covered(reqs, tkr, first, last) ==
    \E q \in reqs : q[1] = tkr /\ q[2] <= first /\ q[3] >= last

\* C13 - The sync of a run asks the source for the history back to the
\* start date of the run: for a ticker without a cached row the days from
\* the start date to today, for a ticker whose first cached date is later
\* than the start date the days from the start date to the day before that
\* first cached date.
C13_CoversStartDate ==
    [][IsSyncStep =>
          \A t \in unique_tickers :
              LET have == CachedDates(market_prices, t)
                  first == StartDate(all_dates)
              IN /\ (have = {} /\ first <= Today)
                       => Covered(requested', t, first, Today)
                 /\ (have # {} /\ SetMin(have) > first)
                       => Covered(requested', t, first, SetMin(have) - 1)]_vars

\* the downloads asked for tkr
RequestsOf(reqs, tkr) == {q \in reqs : q[1] = tkr}

\* C14 - The sync asks, for every ticker whose last cached date is before
\* today, exactly the days from the day after that date to today, and
\* nothing for a ticker whose last cached date is today or later; what is
\* asked for a ticker depends on the cached rows of that ticker alone.
C14_ForwardRange ==
    [][IsSyncStep =>
          /\ \A q \in requested' : q[1] \in unique_tickers
          /\ \A t \in unique_tickers :
                 LET have == CachedDates(market_prices, t)
                 IN have # {} =>
                        RequestsOf(requested', t) =
                            IF SetMax(have) < Today
                            THEN {<<t, SetMax(have) + 1, Today>>}
                            ELSE {}]_vars

\* a run of a ledger with two tickers asked the forward range for the one
\* cached up to an earlier day and nothing for the one cached up to today
C14_Witness ==
    /\ pc # "idle"
    /\ \E t1, t2 \in unique_tickers :
           /\ \E q \in requested : q[1] = t1 /\ q[2] > DefaultStart /\ q[3] = Today
           /\ RequestsOf(requested, t2) = {}
           /\ Today \in CachedDates(prices, t2)
           /\ CachedDates(prices, t1) # {}

\* acc has an entry in current_cash when the transfers of day d are applied:
\* it has a row in accounts, or a transaction dated on or before d or an
\* order dated before d has created it
ExistsAtTransfer(acc, d) ==
    \/ acc \in DOMAIN accounts
    \/ \E i \in DOMAIN transactions :
           /\ ~transactions[i].is_excluded
           /\ transactions[i].account = acc
           /\ transactions[i].date <= d
    \/ \E i \in DOMAIN investments :
           investments[i].account = acc /\ investments[i].date < d

\* the cash of acc after day d as the ledger gives it, whatever the price
\* source did: a transfer counts for an account that has an entry by then
CashAsReplayed(acc, d) ==
    Get(accounts, acc, 0)
      + SumSeq([i \in DOMAIN transactions |->
                   IF transactions[i].date <= d
                   THEN TxSigned(transactions[i], acc) ELSE 0])
      + SumSeq([i \in DOMAIN investments |->
                   IF investments[i].date <= d
                   THEN InvSigned(investments[i], acc) ELSE 0])
      + SumSeq([i \in DOMAIN transfers |->
                   IF transfers[i].date <= d
                      /\ ExistsAtTransfer(acc, transfers[i].date)
                   THEN TrSigned(transfers[i], acc) ELSE 0])

\* the sync wrote every close it was given for the tickers whose download
\* did not raise, lost nothing, and the run goes on
SyncSurvivesFailure ==
    IsSyncStep =>
        /\ fetch_failed' \subseteq unique_tickers
        /\ market_prices \subseteq market_prices'
        /\ \A t \in unique_tickers \ fetch_failed' :
               \A row \in YfSeries[t] :
                   (/\ row[2] # NaN
                    /\ \E q \in RequestsOf(requested', t) :
                           q[2] <= row[1] /\ row[1] <= q[3])
                   => [date |-> row[1], ticker |-> t, price |-> row[2]]
                          \in market_prices'
        /\ \A t \in fetch_failed' :
               CachedDates(market_prices', t) = CachedDates(market_prices, t)
        /\ raised' = FALSE
        /\ pc' # "idle"

\* the run ended without an exception with the table of the calendar and
\* the cash balances the ledger gives
RunSurvivesFailure ==
    pc = "done" =>
        /\ ~raised
        /\ HasData => IsCalendar(result, FirstDate)
        /\ \A i \in DOMAIN trace : \A acc \in DOMAIN trace[i].cash :
               trace[i].cash[acc] = CashAsReplayed(acc, DayOf(i))

\* C15 - A download that raises for a ticker is not propagated: the sync
\* still writes the prices obtained for the other tickers and returns, and
\* the run returns the table of the whole calendar with the cash balances
\* of the ledger, also when the download raises for every ticker.
C15_FetchFailureContained ==
    []RunSurvivesFailure /\ [][SyncSurvivesFailure]_vars

\* a run of a ledger with two tickers in which every download raised ended
\* with a two-day table and a holding valued at its last order price
C15_Witness ==
    /\ pc = "done"
    /\ Cardinality(unique_tickers) = 2
    /\ fetch_failed = unique_tickers
    /\ prices = {}
    /\ Len(result) = 2
    /\ result[2].Total_Invest > 0

\* C16 - Two price syncs in a row for the same tickers, on the same day and
\* with the source answering the same both times, leave the cache after the
\* second as it is after the first: no row added, none changed.
C16_Idempotent ==
    \A tickers \in SUBSET Tickers : \A failed \in SUBSET tickers :
        LET first == update_market_data(market_prices, tickers, failed)
        IN update_market_data(first, tickers, failed) = first

\* a sync has written a price and left a ticker that the next sync asks
\* the source for again
C16_Witness ==
    /\ fetch_failed = {}
    /\ \E q \in requested :
           /\ \E r \in market_prices : r.ticker = q[1] /\ r.date >= q[2]
           /\ Requests(market_prices, {q[1]}) # {}

\* no two rows of the cache have the same (date, ticker)
KeyUnique(cache) ==
    \A r1, r2 \in cache :
        market_prices_key(r1) = market_prices_key(r2) => r1 = r2

\* the closes the sync was given: the rows of the source, with a close, in
\* the range asked for a ticker whose download did not raise
Fetched(reqs, failed) ==
    UNION {{[date |-> row[1], ticker |-> q[1], price |-> row[2]] :
               row \in {x \in YfSeries[q[1]] :
                           x[1] >= q[2] /\ x[1] <= q[3] /\ x[2] # NaN}} :
           q \in {x \in reqs : x[1] \notin failed}}

\* a sync leaves at every key the close it was given for it, and the row it
\* had before at every other key
LastWriteWins ==
    LET got == Fetched(requested', fetch_failed')
    IN /\ got \subseteq market_prices'
       /\ \A r \in market_prices' \ got :
              /\ r \in market_prices
              /\ \A g \in got : market_prices_key(g) # market_prices_key(r)
       /\ \A r \in market_prices :
              (\A g \in got : market_prices_key(g) # market_prices_key(r))
                  => r \in market_prices'

EngineAccounts(d) ==
    (DOMAIN accounts)
      \cup {transactions[i].account : i \in {j \in DOMAIN transactions :
               ~transactions[j].is_excluded /\ transactions[j].date <= d}}
      \cup {investments[i].account : i \in {j \in DOMAIN investments :
                                              investments[j].date <= d}}

\* C18 - For a target date D inside the calendar of the run, the snapshot
\* has for every account of the replay (also one that events name and the
\* accounts table lacks) the cash the replay has after day D, and for every
\* (account, ticker) the quantity the replay has after day D.
C18_SnapshotAgrees ==
    (spc \in {"rows", "done"} /\ FirstDate <= target_date /\ target_date <= Today)
        => /\ \A acc \in EngineAccounts(target_date) :
                  /\ acc \in DOMAIN cash_balances
                  /\ cash_balances[acc] = CashAsReplayed(acc, target_date)
           /\ \A acc \in Names, tkr \in Tickers :
                  Get(portfolio_qty, <<acc, tkr>>, 0)
                      = SignedQtyUpTo(acc, tkr, target_date)

\* the liquidity lines of acc and the investment lines of (acc, tkr)
LiquidityLines(acc) ==
    {l \in rows : l.Type = "Liquidites" /\ l.Account = acc}

HoldingLines(acc, tkr) ==
    {l \in rows : l.Type = "Investissement" /\ l.Account = acc /\ l.Ticker = tkr}

Magnitude(x) == IF x < 0 THEN 0 - x ELSE x

\* the lines are one liquidity line per account whose cash is above 0.01
\* in magnitude, one investment line per holding above qty_eps, no other
LinesAre(qty_eps) ==
    /\ \A l \in rows : l.Type \in {"Liquidites", "Investissement"}
    /\ \A l \in rows : l.Type = "Liquidites" => l.Ticker = "CASH"
    /\ \A acc \in Names :
           Cardinality(LiquidityLines(acc)) =
               IF acc \in DOMAIN cash_balances
                  /\ Magnitude(cash_balances[acc]) > CashEps
               THEN 1 ELSE 0
    /\ \A acc \in Names, tkr \in Tickers :
           Cardinality(HoldingLines(acc, tkr)) =
               IF Get(portfolio_qty, <<acc, tkr>>, 0) > qty_eps THEN 1 ELSE 0

\* C19 (as stated) - The snapshot has one liquidity line per account whose
\* cash is above a small epsilon in magnitude and one investment line per
\* (account, ticker) whose quantity is above the same epsilon, no other.
C19_SameEpsilon == spc = "done" => LinesAre(CashEps)

\* C19 - The snapshot has one liquidity line per account whose cash is above
\* 0.01 in magnitude and one investment line per (account, ticker) whose
\* quantity is above 0.000001, and no other line: an account with cash at
\* or below 0.01 in magnitude and a holding that is zero or negative have
\* no line.
C19_OwnEpsilons == spc = "done" => LinesAre(0)

\* a snapshot with a liquidity line, an account whose cash is within 0.01
\* and has none, a holding of 0.01 with its line and a negative holding
C19_Witness ==
    /\ spc = "done"
    /\ \E l \in rows : l.Type = "Liquidites"
    /\ \E acc \in DOMAIN cash_balances :
           cash_balances[acc] # 0 /\ Magnitude(cash_balances[acc]) <= CashEps
    /\ \E l \in rows : l.Type = "Investissement" /\ l.Quantity <= CashEps
    /\ \E key \in DOMAIN portfolio_qty : portfolio_qty[key] < 0

\* a step of the snapshot leaves the ledger and the cache as they are and
\* asks the price source nothing
SnapshotFrame ==
    (spc # "idle" \/ spc' # "idle") =>
        UNCHANGED <<accounts, transactions, transfers, investments,
                    market_prices, requested, fetch_failed>>

\* every investment line has the cached price with the latest date on or
\* before the target date, 0 without one, and quantity times that price as
\* value; every liquidity line has the cash balance as value
SnapshotLineValues ==
    spc = "done" =>
        \A l \in rows :
            IF l.Type = "Investissement"
            THEN /\ l.Quantity = portfolio_qty[<<l.Account, l.Ticker>>]
                 /\ l.UnitPrice =
                        CachedOnOrBefore(market_prices, l.Ticker, target_date)
                 /\ l.Value = l.Quantity * l.UnitPrice
            ELSE /\ l.Value = cash_balances[l.Account]
                 /\ l.UnitPrice = l.Value
                 /\ l.Quantity = 1

\* C20 - The snapshot only reads: it asks the price source nothing and
\* writes neither the cache nor the ledger; an investment line has the
\* cached price with the latest date on or before the target date (zero
\* when the cache has none) and value = quantity * price, a liquidity line
\* has value = the cash balance.
C20_CacheOnly == []SnapshotLineValues /\ [][SnapshotFrame]_vars

\* a snapshot with a liquidity line, a holding priced from the cache and a
\* holding priced zero whose ticker has only later prices in the cache
C20_Witness ==
    /\ spc = "done"
    /\ \E l \in rows : l.Type = "Liquidites"
    /\ \E l \in rows : l.Type = "Investissement" /\ l.UnitPrice > 0
    /\ \E l \in rows :
           /\ l.Type = "Investissement"
           /\ l.UnitPrice = 0
           /\ CachedDates(market_prices, l.Ticker) # {}

\* the ledger with the excluded transactions removed
KeptTx == SelectSeq(transactions, LAMBDA r : ~r.is_excluded)

KeptDates ==
    {KeptTx[i].date : i \in DOMAIN KeptTx}
      \cup {transfers[i].date : i \in DOMAIN transfers}
      \cup {investments[i].date : i \in DOMAIN investments}

\* acc has an entry when the transfers of day d are applied, in the ledger
\* without the excluded transactions
KeptExistsAtTransfer(acc, d) ==
    \/ acc \in DOMAIN accounts
    \/ \E i \in DOMAIN KeptTx : KeptTx[i].account = acc /\ KeptTx[i].date <= d
    \/ \E i \in DOMAIN investments :
           investments[i].account = acc /\ investments[i].date < d

\* the cash of acc after day d in the ledger without the excluded
\* transactions; the exclusion flag is not read
KeptCash(acc, d) ==
    Get(accounts, acc, 0)
      + SumSeq([i \in DOMAIN KeptTx |->
                   IF KeptTx[i].date <= d /\ KeptTx[i].account = acc
                   THEN (IF KeptTx[i].type = "INCOME" THEN KeptTx[i].amount
                         ELSE 0 - KeptTx[i].amount)
                   ELSE 0])
      + SumSeq([i \in DOMAIN investments |->
                   IF investments[i].date <= d
                   THEN InvSigned(investments[i], acc) ELSE 0])
      + SumSeq([i \in DOMAIN transfers |->
                   IF transfers[i].date <= d
                      /\ KeptExistsAtTransfer(acc, transfers[i].date)
                   THEN TrSigned(transfers[i], acc) ELSE 0])

\* the accounts of the replay after day d in that ledger
KeptAccounts(d) ==
    (DOMAIN accounts)
      \cup {KeptTx[i].account : i \in {j \in DOMAIN KeptTx : KeptTx[j].date <= d}}
      \cup {investments[i].account : i \in {j \in DOMAIN investments :
                                              investments[j].date <= d}}

\* the run and the snapshot give what the ledger without the excluded
\* transactions gives: first day, accounts, cash and Total Wealth
ExcludedCountsForNothing ==
    /\ (pc = "done" /\ result # <<>>) =>
           /\ KeptDates # {} => result[1].date = SetMin(KeptDates)
           /\ KeptDates = {} => result[1].date = Today
    /\ pc = "done" =>
           \A i \in DOMAIN result :
               /\ DOMAIN result[i].cols = KeptAccounts(DayOf(i))
               /\ \A acc \in DOMAIN result[i].cols :
                      trace[i].cash[acc] = KeptCash(acc, DayOf(i))
               /\ result[i].Total_Wealth =
                      SumFn([acc \in KeptAccounts(DayOf(i)) |->
                                KeptCash(acc, DayOf(i))],
                            KeptAccounts(DayOf(i)))
                        + result[i].Total_Invest
    /\ spc \in {"rows", "done"} =>
           \A acc \in DOMAIN cash_balances :
               cash_balances[acc] = KeptCash(acc, target_date)

\* a step that changes a transaction changes the exclusion flag of one
\* transaction and nothing else
ExclusionFrame ==
    (transactions' # transactions /\ Len(transactions') = Len(transactions)) =>
        /\ \E id \in DOMAIN transactions :
               transactions' =
                   [transactions EXCEPT ![id].is_excluded = ~transactions[id].is_excluded]
        /\ UNCHANGED <<accounts, transfers, investments, market_prices, run, snap>>

\* C21 - An excluded transaction counts for nothing: the table of the run
\* and the balances of the snapshot are those of the ledger without it
\* (first day of the calendar, accounts, cash, totals); update_exclusion
\* changes the is_excluded field of the one transaction and nothing else.
C21_Exclusion == []ExcludedCountsForNothing /\ [][ExclusionFrame]_vars

\* a run ended with a table over a ledger whose only earlier row is an
\* excluded transaction on an account of its own
C21_Witness ==
    /\ pc = "done"
    /\ result # <<>>
    /\ \E i \in DOMAIN transactions :
           /\ transactions[i].is_excluded
           /\ transactions[i].date < result[1].date
           /\ transactions[i].account \notin DOMAIN result[1].cols

\* the unit price of the last order of tkr dated on or before d, in date
\* order and, within a day, in row order; 0 without one
LastOrderPrice(tkr, d) ==
    LET is == {i \in DOMAIN investments :
                  investments[i].ticker = tkr /\ investments[i].date <= d}
    IN IF is = {} THEN 0
       ELSE investments[CHOOSE i \in is : \A j \in is :
                \/ investments[j].date < investments[i].date
                \/ investments[j].date = investments[i].date /\ j <= i].unit_price

\* the price of tkr on day d from the rows cache and the ledger
LedgerPrice(cache, tkr, d) ==
    LET m == MarketPrice(cache, FirstDate, d, tkr)
    IN IF m # 0 THEN m ELSE LastOrderPrice(tkr, d)

\* the value of the holdings of acc after day d from the ledger
LedgerInvest(cache, acc, d) ==
    SumFn([tkr \in Tickers |->
              IF SignedQtyUpTo(acc, tkr, d) > 0
              THEN SignedQtyUpTo(acc, tkr, d) * LedgerPrice(cache, tkr, d)
              ELSE 0],
          Tickers)

LedgerRow(cache, d) ==
    LET cols == [acc \in EngineAccounts(d) |->
                    CashAsReplayed(acc, d) + LedgerInvest(cache, acc, d)]
    IN [date |-> d,
        Total_Invest |->
            SumFn([acc \in Names |-> LedgerInvest(cache, acc, d)], Names),
        cols |-> cols,
        Total_Wealth |-> SumFn(cols, DOMAIN cols)]

\* the table as a function of the stored ledger and the price rows read
TableOf(cache) ==
    IF ~HasData \/ FirstDate > Today THEN <<>>
    ELSE [i \in 1..(Today - FirstDate + 1) |->
             LedgerRow(cache, FirstDate + i - 1)]

\* the table as a function of the stored ledger and the stored cache alone
LedgerTable == TableOf(market_prices)

\* a step of a run writes no table of the ledger; the cache changes in the
\* sync step only, where a stored row stays unless a row of its key is
\* written
RunFrame ==
    (pc # "idle" \/ pc' # "idle") =>
        /\ UNCHANGED <<accounts, transactions, transfers, investments>>
        /\ market_prices' # market_prices => IsSyncStep
        /\ \A r \in market_prices :
               \E n \in market_prices' :
                   market_prices_key(n) = market_prices_key(r)

\* C22 - A run writes no row of accounts, transactions, transfers or
\* investments (the accounts it creates live in the run only), writes the
\* cache by upserts only, and returns a table that is a function of the
\* stored ledger and cache: nothing of an earlier run is in it, so a second
\* run over the same ledger, cache and day returns the same table.
C22_RunIsReadOnly ==
    [](pc = "done" => result = LedgerTable) /\ [][RunFrame]_vars

\* a run that wrote the cache and created an account of its own ended with
\* a two-day table, the accounts table still without that account
C22_Witness ==
    /\ pc = "done"
    /\ Len(result) = 2
    /\ market_prices # {}
    /\ \E acc \in DOMAIN result[2].cols : acc \notin DOMAIN accounts
    /\ result[2].Total_Invest > 0

\* the rows a session alone leaves in the cache, and reads back, from the
\* rows it saw when it began
AloneCache(s) == update_market_data(existing_data[s], unique_tickers, {})

NoSessionRuns == \A s \in Sessions : upc[s] \in {"idle", "done"}

\* C23 - Two sessions that run the engine over the same ledger at the same
\* time, in any interleaving: once they are through, the cache holds the
\* rows a single run leaves; the cache never holds two rows of one key; and
\* each session values the ledger with the prices it reads alone.
C23_ConcurrentRuns ==
    /\ KeyUnique(market_prices)
    /\ (NoSessionRuns /\ \E s \in Sessions : upc[s] = "done") =>
           market_prices = update_market_data({}, unique_tickers, {})
    /\ \A s \in Sessions :
           upc[s] = "done" => TableOf(prices_read[s]) = TableOf(AloneCache(s))

\* the rows of a frame in every order
RowOrders(frame) ==
    {[i \in DOMAIN frame |-> frame[f[i]]] :
        f \in {g \in [DOMAIN frame -> DOMAIN frame] :
                  \A i, j \in DOMAIN frame : g[i] = g[j] => i = j}}

RECURSIVE ApplyRows(_, _, _)
ApplyRows(st, frame, kind) ==
    IF frame = <<>> THEN st
    ELSE ApplyRows(IF kind = "tx" THEN ApplyTransaction(st, Head(frame))
                   ELSE IF kind = "tr" THEN ApplyTransfer(st, Head(frame))
                   ELSE ApplyInvestment(st, Head(frame)),
                   Tail(frame), kind)

OnDay(frame, d) == SelectSeq(frame, LAMBDA r : r.date = d)

\* the dicts after the rows of day d: transactions, transfers, then orders
AfterDay(st, d, T, F, I) ==
    ApplyRows(ApplyRows(ApplyRows(st, OnDay(T, d), "tx"), OnDay(F, d), "tr"),
              OnDay(I, d), "inv")

\* the records of the days d..Today of the run's timeline, from the dicts st
RECURSIVE ReplayFrom(_, _, _, _, _)
ReplayFrom(st, d, T, F, I) ==
    IF d > Today THEN <<>>
    ELSE LET s1 == AfterDay(st, d, T, F, I)
         IN <<Record(s1, prices, start_date, d)>>
                \o ReplayFrom(s1, d + 1, T, F, I)

\* the table of the run had the frames been read in the row orders T, F, I
Replay(T, F, I) ==
    WithTotalWealth(
        ReplayFrom([cash |-> accounts,
                    portfolio |-> [acc \in DOMAIN accounts |-> EmptyDict],
                    ltp |-> EmptyDict, err |-> FALSE],
                   start_date, T, F, I))

RunHasTable == pc = "done" /\ ~raised /\ history # <<>>

\* C24 - The table of a run is the table of the same run had the rows been
\* read in any other row order: the same-day transactions, transfers and
\* orders (orders of one ticker at different unit prices included) can be
\* applied in any order without a change to the account columns, Total
\* Invest or Total Wealth of that day or a later one.
C24_SameDayOrder ==
    RunHasTable =>
        \A T \in RowOrders(Trans), F \in RowOrders(transfers),
           I \in RowOrders(investments) : Replay(T, F, I) = result

\* apart from the orders, the order of the rows changes nothing
C24_CashRowsCommute ==
    RunHasTable =>
        \A T \in RowOrders(Trans), F \in RowOrders(transfers) :
            Replay(T, F, investments) = result

\* an amount cell of the file is not a number
Malformed(r, d, t) ==
    SelectRaises(r, 3) \/ SelectRaises(d, 3) \/ SelectRaises(t, 4)

\* the rows the step added to the two tables
AddedTransactions ==
    SubSeq(transactions', Len(transactions) + 1, Len(transactions'))

AddedTransfers == SubSeq(transfers', Len(transfers) + 1, Len(transfers'))

AddedOfType(t_type) ==
    Len(SelectSeq(AddedTransactions, LAMBDA row : row.type = t_type))

MalformedIsBlocked ==
    \A r \in FileRows, d \in FileRows, t \in FileTransferRows :
        (Malformed(r, d, t) /\ import_excel_file(r, d, t, TRUE)) =>
            /\ import_raised'
            /\ ImportMessage' = "Erreur"
            /\ UNCHANGED <<transactions, transfers>>

\* C25 - An import of a file with an amount that is not a number raises to
\* its caller, which shows an error and not the success message, and no row
\* of that file is committed to the ledger.
C25_MalformedBlocks == [][MalformedIsBlocked]_vars

\* the sheet's processing raises: in the select, or in ensure_accounts_exist
SheetRaised(sheet, col, accounts_set) ==
    SelectRaises(sheet, col)
        \/ (sheet # <<>> /\ EnsureRaises(accounts_set))

CountsAndAccounts ==
    \A r \in FileRows, d \in FileRows, t \in FileTransferRows,
       readable \in BOOLEAN :
        import_excel_file(r, d, t, readable) =>
            /\ ~import_raised' =>
                   /\ stats'.Revenus = AddedOfType("INCOME")
                   /\ stats'.Depenses = AddedOfType("EXPENSE")
                   /\ stats'.Transferts = Len(AddedTransfers)
            /\ \A i \in DOMAIN AddedTransactions :
                   AddedTransactions[i].account \in DOMAIN accounts'
            /\ \A i \in DOMAIN AddedTransfers :
                   /\ AddedTransfers[i].source_account \in DOMAIN accounts'
                   /\ AddedTransfers[i].target_account \in DOMAIN accounts'
            /\ SheetRaised(r, 3, {r[i][2] : i \in DOMAIN r}) =>
                   AddedOfType("INCOME") = 0
            /\ SheetRaised(d, 3, {d[i][2] : i \in DOMAIN d}) =>
                   AddedOfType("EXPENSE") = 0
            /\ SheetRaised(t, 4, {t[i][2] : i \in DOMAIN t}
                                    \cup {t[i][3] : i \in DOMAIN t}) =>
                   AddedTransfers = <<>>

\* C26 - After every import the count returned for a sheet is the number of
\* rows of the sheet the import committed, every account named by a
\* committed row has a row in accounts, and a sheet whose processing raised
\* (in ensure_accounts_exist too) has none of its rows committed.
C26_CountsAndAccounts == [][CountsAndAccounts]_vars

====
